---------------------------- MODULE Spec2Model ----------------------------
(***************************************************************************)
(* A model of spm-search: the query builder, the search URL builder, the   *)
(* HTTP error classifier and the search_packages call of                   *)
(* src/src/spm_search_mcp/scraper.py.                                      *)
(*                                                                         *)
(* Python str values are TLA+ strings; an Optional[T] value is a tuple,    *)
(* <<>> for None and <<v>> for the value v.                                *)
(***************************************************************************)
EXTENDS Integers, Sequences, FiniteSets, TLC

VARIABLES
    pc,            \* position of the call being modelled
    args,          \* the keyword arguments of build_query / search_packages
    page,          \* the page argument
    query_string,  \* local of search_packages (scraper.py:304)
    search_url,    \* local of search_packages (scraper.py:330)
    client,        \* the httpx.AsyncClient of the call: "none", "open", "closed"
    n_clients,     \* clients constructed by the call
    requests,      \* the URLs of the GETs issued by the call, in order
    outcome,       \* what the awaited client.get produced
    ret,           \* the value the call returned, None while it has not
    exc,           \* the exception the call raised, "none" while it has not
    status_code,   \* argument of _classify_http_error
    message,       \* result of _classify_http_error, None before the call
    readme_args,   \* owner, repo, max_length of fetch_readme, and the
                   \* max_length given to get_package_readme (None: not via the tool)
    answers,       \* what each README probe produced so far, in order
    calls,         \* interleaved calls: the local state of each call
    clients        \* interleaved calls: the state of each call's HTTP client

vars == <<pc, args, page, query_string, search_url, client, n_clients,
          requests, outcome, ret, exc, status_code, message, readme_args,
          answers, calls, clients>>

\* No interleaved calls are part of the behaviour.
NoCalls == calls = <<>> /\ clients = <<>>

readme_vars == <<readme_args, answers>>

\* No fetch_readme call is part of the behaviour.
ReadmeIdle ==
    /\ readme_args = [owner |-> "", repo |-> "", max_length |-> 0, tool_max_length |-> <<>>]
    /\ answers = <<>>
    /\ NoCalls

----------------------------------------------------------------------------
(* Bounds of the model *)

MaxPage == 3
MaxStatus == 610

----------------------------------------------------------------------------
(* Python values *)

None == <<>>
Some(v) == <<v>>
IsNone(o) == Len(o) = 0
Val(o) == o[1]

\* Truthiness of an Optional[str]: None and "" are falsy.
TruthyStr(o) == ~IsNone(o) /\ Val(o) # ""

\* Truthiness of an Optional[list]: None and [] are falsy.
TruthyList(o) == ~IsNone(o) /\ Len(Val(o)) > 0

Char(s, i) == SubSeq(s, i, i)

StartsWith(s, p) == Len(s) >= Len(p) /\ SubSeq(s, 1, Len(p)) = p

Contains(s, p) == \E i \in 1..(Len(s) - Len(p) + 1) : SubSeq(s, i, i + Len(p) - 1) = p

Digit(d) == Char("0123456789", d + 1)

RECURSIVE NatStr(_)
NatStr(n) == IF n < 10 THEN Digit(n) ELSE NatStr(n \div 10) \o Digit(n % 10)

\* str(int), as an f-string formats an int: decimal, "-" for a negative.
IntStr(n) == IF n < 0 THEN "-" \o NatStr(-n) ELSE NatStr(n)

\* sep.join(parts)
RECURSIVE Join(_, _)
Join(sep, parts) ==
    IF Len(parts) = 0 THEN ""
    ELSE IF Len(parts) = 1 THEN parts[1]
    ELSE parts[1] \o sep \o Join(sep, Tail(parts))

\* s.split(sep) for a one-character sep: never empty, keeps empty fields.
\* Field k lies between the (k-1)-th and the k-th occurrence of sep.
Split(s, sep) ==
    LET P == {i \in 1..Len(s) : Char(s, i) = sep}
        n == Cardinality(P)
        pos(k) == IF k = 0 THEN 0
                  ELSE IF k = n + 1 THEN Len(s) + 1
                  ELSE CHOOSE i \in P : Cardinality({j \in P : j < i}) = k - 1
        fields == [k \in 1..(n + 1) |-> SubSeq(s, pos(k - 1) + 1, pos(k) - 1)]
    IN  SubSeq(fields, 1, n + 1)

Whitespace == {" ", "\t", "\n", "\r"}

\* s.strip(chars): drop the leading and trailing characters that are in chars.
RECURSIVE LStrip(_, _)
LStrip(s, chars) ==
    IF Len(s) > 0 /\ Char(s, 1) \in chars THEN LStrip(SubSeq(s, 2, Len(s)), chars) ELSE s

RECURSIVE RStrip(_, _)
RStrip(s, chars) ==
    IF Len(s) > 0 /\ Char(s, Len(s)) \in chars THEN RStrip(SubSeq(s, 1, Len(s) - 1), chars) ELSE s

Strip(s, chars) == RStrip(LStrip(s, chars), chars)

----------------------------------------------------------------------------
(* build_query, scraper.py:31-92 *)

SPI_BASE_URL == "https://swiftpackageindex.com"
SPI_SEARCH_URL == SPI_BASE_URL \o "/search"

\* One conditional append of build_query: the token if the guard holds.
Part(guard, token) == IF guard THEN <<token>> ELSE <<>>

\* build_query with the free text appended after the author filter.
build_query_swapped(a) ==
    Join(" ",
         Part(TruthyStr(a.author), "author:" \o Val(a.author))
      \o Part(a.query # "", a.query)
      \o Part(TruthyStr(a.keyword), "keyword:" \o Val(a.keyword))
      \o Part(~IsNone(a.min_stars), "stars:>=" \o IntStr(Val(a.min_stars)))
      \o Part(~IsNone(a.max_stars), "stars:<=" \o IntStr(Val(a.max_stars)))
      \o Part(TruthyList(a.platforms), "platform:" \o Join(",", Val(a.platforms)))
      \o Part(TruthyStr(a.license_filter), "license:" \o Val(a.license_filter))
      \o Part(TruthyStr(a.last_activity_after), "last_activity:>=" \o Val(a.last_activity_after))
      \o Part(TruthyStr(a.last_activity_before), "last_activity:<=" \o Val(a.last_activity_before))
      \o Part(TruthyStr(a.last_commit_after), "last_commit:>=" \o Val(a.last_commit_after))
      \o Part(TruthyStr(a.last_commit_before), "last_commit:<=" \o Val(a.last_commit_before))
      \o Part(TruthyStr(a.product_type), "product:" \o Val(a.product_type)))

\* build_query with one platform: token per platform of the list.
build_query_token_per_platform(a) ==
    Join(" ",
         Part(a.query # "", a.query)
      \o Part(TruthyStr(a.author), "author:" \o Val(a.author))
      \o Part(TruthyStr(a.keyword), "keyword:" \o Val(a.keyword))
      \o Part(~IsNone(a.min_stars), "stars:>=" \o IntStr(Val(a.min_stars)))
      \o Part(~IsNone(a.max_stars), "stars:<=" \o IntStr(Val(a.max_stars)))
      \o Part(TruthyList(a.platforms), Join(" ", [i \in 1..Len(Val(a.platforms)) |-> "platform:" \o Val(a.platforms)[i]]))
      \o Part(TruthyStr(a.license_filter), "license:" \o Val(a.license_filter))
      \o Part(TruthyStr(a.last_activity_after), "last_activity:>=" \o Val(a.last_activity_after))
      \o Part(TruthyStr(a.last_activity_before), "last_activity:<=" \o Val(a.last_activity_before))
      \o Part(TruthyStr(a.last_commit_after), "last_commit:>=" \o Val(a.last_commit_after))
      \o Part(TruthyStr(a.last_commit_before), "last_commit:<=" \o Val(a.last_commit_before))
      \o Part(TruthyStr(a.product_type), "product:" \o Val(a.product_type)))

\* Each "if x: parts.append(...)" in source order, then " ".join(parts).
build_query(a) ==
    Join(" ",
         Part(a.query # "", a.query)
      \o Part(TruthyStr(a.author), "author:" \o Val(a.author))
      \o Part(TruthyStr(a.keyword), "keyword:" \o Val(a.keyword))
      \o Part(~IsNone(a.min_stars), "stars:>=" \o IntStr(Val(a.min_stars)))
      \o Part(~IsNone(a.max_stars), "stars:<=" \o IntStr(Val(a.max_stars)))
      \o Part(TruthyList(a.platforms), "platform:" \o Join(",", Val(a.platforms)))
      \o Part(TruthyStr(a.license_filter), "license:" \o Val(a.license_filter))
      \o Part(TruthyStr(a.last_activity_after), "last_activity:>=" \o Val(a.last_activity_after))
      \o Part(TruthyStr(a.last_activity_before), "last_activity:<=" \o Val(a.last_activity_before))
      \o Part(TruthyStr(a.last_commit_after), "last_commit:>=" \o Val(a.last_commit_after))
      \o Part(TruthyStr(a.last_commit_before), "last_commit:<=" \o Val(a.last_commit_before))
      \o Part(TruthyStr(a.product_type), "product:" \o Val(a.product_type)))

----------------------------------------------------------------------------
(* urllib.parse.quote_plus and _build_search_url, scraper.py:95-100 *)

\* The ASCII characters 0x20..0x26, 0x28..0x5F and 0x61..0x7E in code order
\* (the apostrophe, 0x27, and the backquote, 0x60, are not characters of the
\* model).
PrintableLow == " !\"#$%&"
PrintableMid == "()*+,-./0123456789:;<=>?@ABCDEFGHIJKLMNOPQRSTUVWXYZ[\\]^_"
PrintableHigh == "abcdefghijklmnopqrstuvwxyz{|}~"
Printable == PrintableLow \o PrintableMid \o PrintableHigh

IndexIn(s, c) == CHOOSE i \in 1..Len(s) : Char(s, i) = c

\* ord(c)
Ord(c) ==
    CASE c = "\t" -> 9
      [] c = "\n" -> 10
      [] c = "\r" -> 13
      [] Contains(PrintableLow, c) -> 31 + IndexIn(PrintableLow, c)
      [] Contains(PrintableMid, c) -> 39 + IndexIn(PrintableMid, c)
      [] OTHER -> 96 + IndexIn(PrintableHigh, c)

\* The characters quote never escapes: letters, digits and "_.-~".
AlwaysSafe == "ABCDEFGHIJKLMNOPQRSTUVWXYZabcdefghijklmnopqrstuvwxyz0123456789_.-~"

HexDigit(d) == Char("0123456789ABCDEF", d + 1)

\* quote_plus of one character: unreserved kept, space to "+", else %XX.
QuoteChar(c) ==
    IF Contains(AlwaysSafe, c) THEN c
    ELSE IF c = " " THEN "+"
    ELSE "%" \o HexDigit(Ord(c) \div 16) \o HexDigit(Ord(c) % 16)

\* quote_plus of s[lo..hi], halving the range.
RECURSIVE QuoteRange(_, _, _)
QuoteRange(s, lo, hi) ==
    IF lo > hi THEN ""
    ELSE IF lo = hi THEN QuoteChar(Char(s, lo))
    ELSE LET mid == (lo + hi) \div 2
         IN  QuoteRange(s, lo, mid) \o QuoteRange(s, mid + 1, hi)

quote_plus(s) == QuoteRange(s, 1, Len(s))

\* _build_search_url with the page test off by one.
_build_search_url_from_one(q, p) ==
    LET url == SPI_SEARCH_URL \o "?query=" \o quote_plus(q)
    IN  IF p >= 1 THEN url \o "&page=" \o IntStr(p) ELSE url

_build_search_url(q, p) ==
    LET url == SPI_SEARCH_URL \o "?query=" \o quote_plus(q)
    IN  IF p > 1 THEN url \o "&page=" \o IntStr(p) ELSE url

----------------------------------------------------------------------------
(* _classify_http_error, scraper.py:265-284 *)

\* _classify_http_error with the code 500 written into the 5xx message.
_classify_http_error_fixed_500(s) ==
    CASE s = 429 ->
            "RETRYABLE: Rate limited by Swift Package Index. Wait 60 seconds, then retry the same search."
      [] s = 403 ->
            "PERMANENT: Access denied by Swift Package Index (403). The site may be blocking automated requests."
      [] s = 404 ->
            "PERMANENT: Search endpoint not found (404). SPI may have changed their URL structure."
      [] s \notin {429, 403, 404} /\ 500 <= s /\ s < 600 ->
            "RETRYABLE: Swift Package Index returned server error (500). The site may be under maintenance. Retry in 30 seconds."
      [] OTHER ->
            "PERMANENT: Unexpected HTTP " \o IntStr(s) \o " from Swift Package Index. Check "
                \o SPI_BASE_URL \o " manually."

\* _classify_http_error with the 5xx range starting above 500.
_classify_http_error_open_500(s) ==
    CASE s = 429 ->
            "RETRYABLE: Rate limited by Swift Package Index. Wait 60 seconds, then retry the same search."
      [] s = 403 ->
            "PERMANENT: Access denied by Swift Package Index (403). The site may be blocking automated requests."
      [] s = 404 ->
            "PERMANENT: Search endpoint not found (404). SPI may have changed their URL structure."
      [] s \notin {429, 403, 404} /\ 500 < s /\ s < 600 ->
            "RETRYABLE: Swift Package Index returned server error (" \o IntStr(s)
                \o "). The site may be under maintenance. Retry in 30 seconds."
      [] OTHER ->
            "PERMANENT: Unexpected HTTP " \o IntStr(s) \o " from Swift Package Index. Check "
                \o SPI_BASE_URL \o " manually."

\* The match statement takes the first case that matches.
_classify_http_error(s) ==
    CASE s = 429 ->
            "RETRYABLE: Rate limited by Swift Package Index. Wait 60 seconds, then retry the same search."
      [] s = 403 ->
            "PERMANENT: Access denied by Swift Package Index (403). The site may be blocking automated requests."
      [] s = 404 ->
            "PERMANENT: Search endpoint not found (404). SPI may have changed their URL structure."
      [] s \notin {429, 403, 404} /\ 500 <= s /\ s < 600 ->
            "RETRYABLE: Swift Package Index returned server error (" \o IntStr(s)
                \o "). The site may be under maintenance. Retry in 30 seconds."
      [] OTHER ->
            "PERMANENT: Unexpected HTTP " \o IntStr(s) \o " from Swift Package Index. Check "
                \o SPI_BASE_URL \o " manually."

----------------------------------------------------------------------------
(* The arguments a caller can pass *)

NoArgs ==
    [query |-> "", author |-> None, keyword |-> None, min_stars |-> None,
     max_stars |-> None, platforms |-> None, license_filter |-> None,
     last_activity_after |-> None, last_activity_before |-> None,
     last_commit_after |-> None, last_commit_before |-> None,
     product_type |-> None]

QueryArgs ==
    [query : {"", "json", " ", "a b"},
     author : {None, Some(""), Some("apple")},
     keyword : {None, Some("server")},
     min_stars : {None, Some(0), Some(50)},
     max_stars : {None, Some(1000)},
     platforms : {None, Some(<<>>), Some(<<"ios">>), Some(<<"linux", "ios">>)},
     license_filter : {None, Some("mit")},
     last_activity_after : {None, Some("2024-01-01")},
     last_activity_before : {None, Some("2024-06-30")},
     last_commit_after : {None, Some("2024-01-01")},
     last_commit_before : {None, Some("2023-12-31")},
     product_type : {None, Some("library")}]

----------------------------------------------------------------------------
(* SpecQuery: build_query applied to every argument combination *)

Idle ==
    /\ page = 1
    /\ query_string = ""
    /\ search_url = ""
    /\ client = "none"
    /\ n_clients = 0
    /\ requests = <<>>
    /\ outcome = None
    /\ ret = None
    /\ exc = "none"
    /\ status_code = 0
    /\ message = None
    /\ ReadmeIdle

InitQuery ==
    /\ pc = "start"
    /\ args \in QueryArgs
    /\ Idle

BuildQuery ==
    /\ pc = "start"
    /\ UNCHANGED <<readme_vars, calls, clients>>
    /\ query_string' = build_query(args)
    /\ pc' = "built"
    /\ UNCHANGED <<args, page, search_url, client, n_clients, requests, outcome,
                   ret, exc, status_code, message>>

NextQuery == BuildQuery

SpecQuery == InitQuery /\ [][NextQuery]_vars


----------------------------------------------------------------------------
(* Reading a built query back: its tokens and the filter each belongs to *)

\* The filter prefixes in the order build_query declares its parameters.
FilterKeys ==
    <<"author:", "keyword:", "stars:>=", "stars:<=", "platform:", "license:",
      "last_activity:>=", "last_activity:<=", "last_commit:>=", "last_commit:<=",
      "product:">>

\* The declaration rank of a token: 0 for free text, k for the k-th filter.
Rank(token) ==
    IF \E k \in 1..Len(FilterKeys) : StartsWith(token, FilterKeys[k])
    THEN CHOOSE k \in 1..Len(FilterKeys) : StartsWith(token, FilterKeys[k])
    ELSE 0

Tokens(s) == Split(s, " ")

\* What the caller supplied for the k-th filter, as text: None when the filter
\* is absent or empty.
Supplied(a, k) ==
    CASE k = 1 -> IF TruthyStr(a.author) THEN a.author ELSE None
      [] k = 2 -> IF TruthyStr(a.keyword) THEN a.keyword ELSE None
      [] k = 3 -> IF IsNone(a.min_stars) THEN None ELSE Some(IntStr(Val(a.min_stars)))
      [] k = 4 -> IF IsNone(a.max_stars) THEN None ELSE Some(IntStr(Val(a.max_stars)))
      [] k = 5 -> IF TruthyList(a.platforms) THEN Some(Join(",", Val(a.platforms))) ELSE None
      [] k = 6 -> IF TruthyStr(a.license_filter) THEN a.license_filter ELSE None
      [] k = 7 -> IF TruthyStr(a.last_activity_after) THEN a.last_activity_after ELSE None
      [] k = 8 -> IF TruthyStr(a.last_activity_before) THEN a.last_activity_before ELSE None
      [] k = 9 -> IF TruthyStr(a.last_commit_after) THEN a.last_commit_after ELSE None
      [] k = 10 -> IF TruthyStr(a.last_commit_before) THEN a.last_commit_before ELSE None
      [] k = 11 -> IF TruthyStr(a.product_type) THEN a.product_type ELSE None

NothingSupplied(a) ==
    a.query = "" /\ \A k \in 1..Len(FilterKeys) : IsNone(Supplied(a, k))

\* The tokens of rank 0 of a token sequence, in order.
IsFreeText(token) == Rank(token) = 0
FreeTextTokens(s) == SelectSeq(Tokens(s), IsFreeText)

----------------------------------------------------------------------------
(* C6: the tokens of build_query's output appear in the declaration order   *)
(* free text, author, keyword, stars>=, stars<=, platform, license,         *)
(* last_activity>=, last_activity<=, last_commit>=, last_commit<=, product: *)
(* ranks never decrease along the output and no filter rank repeats.        *)
C6_TokensInDeclarationOrder ==
    pc = "built" =>
        LET t == Tokens(query_string)
            r == SubSeq([i \in 1..Len(t) |-> Rank(t[i])], 1, Len(t))
        IN  \A i, j \in 1..Len(t) :
                i < j => /\ r[i] <= r[j]
                         /\ (r[i] > 0 => r[i] < r[j])

\* C6 witness: a built query holding free text and at least three filters.
C6_Witness ==
    /\ pc = "built"
    /\ args.query = "json"
    /\ ~IsNone(args.author)
    /\ ~IsNone(args.min_stars)
    /\ Contains(query_string, " product:")

(* C7: build_query's output is the single-space join of one token per       *)
(* present input and nothing for absent or empty inputs: each present       *)
(* filter k contributes exactly one token, FilterKeys[k] followed by its    *)
(* value (a platform list comma-joined in the order given), an absent or    *)
(* empty filter contributes none, and the free text appears unprefixed.     *)
C7_OneTokenPerPresentInput ==
    pc = "built" =>
        LET t == Tokens(query_string)
            r == SubSeq([i \in 1..Len(t) |-> Rank(t[i])], 1, Len(t))
        IN
        /\ NothingSupplied(args) <=> query_string = ""
        /\ \A k \in 1..Len(FilterKeys) :
              LET hits == {i \in 1..Len(t) : r[i] = k} IN
              IF IsNone(Supplied(args, k))
              THEN hits = {}
              ELSE /\ Cardinality(hits) = 1
                   /\ \A i \in hits : t[i] = FilterKeys[k] \o Val(Supplied(args, k))
        /\ query_string # "" =>
              FreeTextTokens(query_string) =
                  (IF args.query = "" THEN <<>> ELSE Tokens(args.query))
        /\ Join(" ", t) = query_string

\* C7 witness: a two-platform list, an empty author and a zero star bound
\* have been through build_query.
C7_Witness ==
    /\ pc = "built"
    /\ args.platforms = Some(<<"linux", "ios">>)
    /\ args.author = Some("")
    /\ args.min_stars = Some(0)
    /\ Contains(query_string, "platform:linux,ios")

\* C7 witness: an empty platform list contributed nothing.
C7_WitnessEmptyList ==
    /\ pc = "built"
    /\ args.platforms = Some(<<>>)
    /\ query_string = "json"

----------------------------------------------------------------------------
(* SpecUrl: _build_search_url applied to query strings and page numbers *)

UrlQueries ==
    {"json", "a b", "stars:>=50", "a&page=7", "page=2", "50%", "a+b", "q?#",
     "~user_name-1.0", "author:apple platform:linux,ios", "!vapor", " x "}

InitUrl ==
    /\ pc = "built"
    /\ args = NoArgs
    /\ query_string \in UrlQueries
    /\ page \in (-1)..MaxPage
    /\ search_url = ""
    /\ client = "none"
    /\ n_clients = 0
    /\ requests = <<>>
    /\ outcome = None
    /\ ret = None
    /\ exc = "none"
    /\ status_code = 0
    /\ message = None
    /\ ReadmeIdle

BuildSearchUrl ==
    /\ pc = "built"
    /\ UNCHANGED <<readme_vars, calls, clients>>
    /\ search_url' = _build_search_url(query_string, page)
    /\ pc' = "url"
    /\ UNCHANGED <<args, page, query_string, client, n_clients, requests, outcome,
                   ret, exc, status_code, message>>

NextUrl == BuildSearchUrl

SpecUrl == InitUrl /\ [][NextUrl]_vars

\* urllib.parse.unquote_plus of s[lo..hi]: "+" is a space, %XX the character
\* with that code; the two hex digits after a "%" are consumed by it.
UnquoteAt(s, i) ==
    IF (i > 1 /\ Char(s, i - 1) = "%") \/ (i > 2 /\ Char(s, i - 2) = "%") THEN ""
    ELSE IF Char(s, i) = "+" THEN " "
    ELSE IF Char(s, i) = "%"
         THEN LET hex == SubSeq(s, i + 1, i + 2)
              IN  CHOOSE c \in {Char(Printable, k) : k \in 1..Len(Printable)} :
                      HexDigit(Ord(c) \div 16) \o HexDigit(Ord(c) % 16) = hex
    ELSE Char(s, i)

RECURSIVE UnquoteRange(_, _, _)
UnquoteRange(s, lo, hi) ==
    IF lo > hi THEN ""
    ELSE IF lo = hi THEN UnquoteAt(s, lo)
    ELSE LET mid == (lo + hi) \div 2
         IN  UnquoteRange(s, lo, mid) \o UnquoteRange(s, mid + 1, hi)

unquote_plus(s) == UnquoteRange(s, 1, Len(s))

\* The part of a search URL after "https://swiftpackageindex.com/search?query=".
UrlPrefix == SPI_SEARCH_URL \o "?query="
AfterPrefix(url) == SubSeq(url, Len(UrlPrefix) + 1, Len(url))

\* A URL that carries the query q and no page parameter.
UrlWithoutPage(url, q) ==
    /\ StartsWith(url, UrlPrefix)
    /\ ~Contains(AfterPrefix(url), "&")
    /\ ~Contains(AfterPrefix(url), "page=")
    /\ unquote_plus(AfterPrefix(url)) = q

\* A URL that carries the query q followed by the one parameter page=p.
UrlWithPage(url, q, p) ==
    LET suffix == "&page=" \o IntStr(p)
        n == Len(url) - Len(suffix)
    IN  /\ n >= Len(UrlPrefix)
        /\ SubSeq(url, n + 1, Len(url)) = suffix
        /\ UrlWithoutPage(SubSeq(url, 1, n), q)

(* C8 as stated: the URL omits the page parameter when page = 1 and, for     *)
(* every other page value, appends "&page=<page>" after the encoded query.  *)
C8_PageAppendedUnlessOne ==
    pc = "url" =>
        IF page = 1
        THEN UrlWithoutPage(search_url, query_string)
        ELSE UrlWithPage(search_url, query_string, page)

(* C8 amended: the URL omits the page parameter when page <= 1 and appends   *)
(* "&page=<page>" after the URL-encoded query when page > 1.                *)
C8_PageAppendedAboveOne ==
    pc = "url" =>
        IF page <= 1
        THEN UrlWithoutPage(search_url, query_string)
        ELSE UrlWithPage(search_url, query_string, page)

\* C8 witness: a URL built for page 0 without a page parameter, from a query
\* that itself holds the text "&page=".
C8_Witness ==
    /\ pc = "url"
    /\ page = 0
    /\ query_string = "a&page=7"
    /\ search_url = "https://swiftpackageindex.com/search?query=a%26page%3D7"

----------------------------------------------------------------------------
(* SpecClassify: _classify_http_error applied to status codes *)

StatusCodes == 0..MaxStatus

InitClassify ==
    /\ pc = "classify"
    /\ args = NoArgs
    /\ page = 1
    /\ query_string = ""
    /\ search_url = ""
    /\ client = "none"
    /\ n_clients = 0
    /\ requests = <<>>
    /\ outcome = None
    /\ ret = None
    /\ exc = "none"
    /\ status_code \in StatusCodes
    /\ message = None
    /\ ReadmeIdle

Classify ==
    /\ pc = "classify"
    /\ UNCHANGED <<readme_vars, calls, clients>>
    /\ message' = Some(_classify_http_error(status_code))
    /\ pc' = "classified"
    /\ UNCHANGED <<args, page, query_string, search_url, client, n_clients,
                   requests, outcome, ret, exc, status_code>>

NextClassify == Classify

SpecClassify == InitClassify /\ [][NextClassify]_vars

IsRetryable(msg) == StartsWith(msg, "RETRYABLE")
IsPermanent(msg) == StartsWith(msg, "PERMANENT")

(* C9: _classify_http_error yields, for every status code, a message that   *)
(* begins with exactly one of RETRYABLE and PERMANENT: RETRYABLE iff the     *)
(* status is 429 or in 500..599, PERMANENT for 403, 404 and all others.     *)
C9_TagByStatus ==
    pc = "classified" =>
        /\ ~IsNone(message)
        /\ IsRetryable(Val(message)) # IsPermanent(Val(message))
        /\ IsRetryable(Val(message)) <=>
               (status_code = 429 \/ (500 <= status_code /\ status_code <= 599))

\* C9 witness: a 5xx status has been classified as retryable.
C9_Witness ==
    /\ pc = "classified"
    /\ status_code = 500
    /\ IsRetryable(Val(message))

(* C10: the message contains the decimal status code whenever the status is *)
(* in 500..599 or is not one of the mapped codes 429, 403, 404.             *)
C10_MessageNamesCode ==
    (pc = "classified" /\ ((500 <= status_code /\ status_code <= 599)
                            \/ status_code \notin {429, 403, 404})) =>
        Contains(Val(message), IntStr(status_code))

\* C10 witness: an unmapped status and its code in the message.
C10_Witness ==
    /\ pc = "classified"
    /\ status_code = 418
    /\ Contains(Val(message), "HTTP 418 ")

----------------------------------------------------------------------------
(* The parsed document: what BeautifulSoup(html, "lxml") gives the parser.  *)
(* A document is a tree of nodes [tag, class, href, text, kids].  An        *)
(* element has its tag name, the list of its class names (empty: no class   *)
(* attribute), its href attribute (None: no such attribute) and its child   *)
(* nodes in document order; a text node has the tag "#text" and its string. *)
(* An element with an empty class attribute, class="", is not part of the   *)
(* model.                                                                   *)

Element(tag, class, href, kids) ==
    [tag |-> tag, class |-> class, href |-> href, text |-> "", kids |-> kids]

Text(t) == [tag |-> "#text", class |-> <<>>, href |-> None, text |-> t, kids |-> <<>>]

\* <a href=...> with an <h4> and a <p> child, each left out when None.
Anchor(href, h4, p) ==
    Element("a", <<>>, href,
            (IF IsNone(h4) THEN <<>> ELSE <<Element("h4", <<>>, None, <<Text(Val(h4))>>)>>)
                \o (IF IsNone(p) THEN <<>> ELSE <<Element("p", <<>>, None, <<Text(Val(p))>>)>>))

\* <li class=...> around the anchor a, or empty when a is None.
Li(class, a) == Element("li", class, None, IF IsNone(a) THEN <<>> ELSE <<Val(a)>>)

Ul(class, lis) == Element("ul", class, None, lis)

\* A document with a <section class="package-results"> holding the given
\* children (no such section when None), followed by the nodes of after.
Document(section, after) ==
    Element("[document]", <<>>, None,
            (IF IsNone(section) THEN <<>>
             ELSE <<Element("section", <<"package-results">>, None, Val(section))>>)
                \o after)

\* The descendants of a node in document order.
RECURSIVE Descendants(_), DescendantsFrom(_, _)
DescendantsFrom(kids, i) ==
    IF i > Len(kids) THEN <<>>
    ELSE <<kids[i]>> \o Descendants(kids[i]) \o DescendantsFrom(kids, i + 1)

Descendants(node) == DescendantsFrom(node.kids, 1)

HasClass(el, name) == \E i \in 1..Len(el.class) : el.class[i] = name

\* The element of els at the least of the positions hits, or None.
First(els, hits) ==
    IF hits = {} THEN None
    ELSE Some(els[CHOOSE i \in hits : \A j \in hits : i <= j])

\* node.find(tag): the first descendant with the tag, or None.
Find(node, tag) ==
    LET below == Descendants(node)
    IN  First(below, {i \in 1..Len(below) : below[i].tag = tag})

\* node.find(tag, class_=name)
FindClass(node, tag, name) ==
    LET below == Descendants(node)
    IN  First(below, {i \in 1..Len(below) : below[i].tag = tag /\ HasClass(below[i], name)})

\* node.find_all(tag, recursive=False): the children with the tag.
FindAllChildren(node, tag) == SelectSeq(node.kids, LAMBDA el : el.tag = tag)

\* el.get_text(strip=True): the strings below el, each stripped, joined.
RECURSIVE StrippedTexts(_, _)
StrippedTexts(els, n) ==
    IF n = 0 THEN ""
    ELSE StrippedTexts(els, n - 1)
             \o (IF els[n].tag = "#text" THEN Strip(els[n].text, Whitespace) ELSE "")

get_text(el) == StrippedTexts(Descendants(el), Len(Descendants(el)))

\* urljoin(SPI_BASE_URL, href): an href with a scheme stands alone, "//host"
\* takes the base's scheme, anything else is a path under the base's host.
\* (Dot segments and empty segments of a relative path, which urljoin
\* removes, do not occur in the hrefs of the model.)
urljoin_base(href) ==
    IF href = "" THEN SPI_BASE_URL
    ELSE IF StartsWith(href, "https://") \/ StartsWith(href, "http://") THEN href
    ELSE IF StartsWith(href, "//") THEN "https:" \o href
    ELSE IF StartsWith(href, "/") THEN SPI_BASE_URL \o href
    ELSE SPI_BASE_URL \o "/" \o href

\* el.get_text(strip=True) if the element exists, else the fallback.
TextOr(el, fallback) == IF IsNone(el) THEN fallback ELSE get_text(Val(el))

\* _parse_package_from_li, scraper.py:145-197: None or the PackageResult.
\* (stars, last_activity, has_docs and keywords are not part of the model.)
_parse_package_from_li(li) ==
    LET found == Find(li, "a")
    IN  IF IsNone(found) THEN None
        ELSE LET link == Val(found)
                 href == IF IsNone(link.href) THEN "" ELSE Val(link.href)
                 path_parts == Split(Strip(href, {"/"}), "/")
             IN  IF Len(path_parts) < 2 THEN None
                 ELSE LET author == path_parts[1]
                          repo == path_parts[2]
                      IN  Some([name |-> TextOr(Find(link, "h4"), repo),
                                description |-> TextOr(Find(link, "p"), ""),
                                url |-> urljoin_base(href),
                                github_url |-> "https://github.com/" \o author \o "/" \o repo,
                                author |-> author])

\* The results collected last item first.
RECURSIVE ParseItems_reversed(_, _)
ParseItems_reversed(lis, n) ==
    IF n = 0 THEN <<>>
    ELSE _parse_package_from_li(lis[n]) \o ParseItems_reversed(lis, n - 1)

\* The parsed results of the items lis[1..n], in order, unparsable ones skipped.
RECURSIVE ParseItems(_, _)
ParseItems(lis, n) ==
    IF n = 0 THEN <<>>
    ELSE ParseItems(lis, n - 1) \o _parse_package_from_li(lis[n])

\* The results list taken from all the lists below the section.
package_list_of_any_depth(section) ==
    LET below == Descendants(section)
    IN  First(below, {i \in 1..Len(below) : below[i].tag = "ul" /\ Len(below[i].class) = 0})

\* scraper.py:217-221: the first <ul> child of the section without a class.
package_list_of(section) ==
    LET uls == FindAllChildren(section, "ul")
    IN  First(uls, {i \in 1..Len(uls) : Len(uls[i].class) = 0})

\* The results read from any section, whatever its class.
parse_search_results_any_section(doc) ==
    LET package_section == Find(doc, "section")
    IN  IF IsNone(package_section) THEN <<>>
        ELSE LET package_list == package_list_of(Val(package_section))
             IN  IF IsNone(package_list) THEN <<>>
                 ELSE LET lis == FindAllChildren(Val(package_list), "li")
                      IN  ParseItems(lis, Len(lis))

\* parse_search_results, scraper.py:200-233
parse_search_results(doc) ==
    LET package_section == FindClass(doc, "section", "package-results")
    IN  IF IsNone(package_section) THEN <<>>
        ELSE LET package_list == package_list_of(Val(package_section))
             IN  IF IsNone(package_list) THEN <<>>
                 ELSE LET lis == FindAllChildren(Val(package_list), "li")
                      IN  ParseItems(lis, Len(lis))

\* _has_more_pages, scraper.py:236-245
_has_more_pages(doc) ==
    LET pagination == FindClass(doc, "ul", "pagination")
    IN  IF IsNone(pagination) THEN FALSE
        ELSE LET next_li == FindClass(Val(pagination), "li", "next")
             IN  ~IsNone(next_li) /\ ~IsNone(Find(Val(next_li), "a"))

----------------------------------------------------------------------------
(* The documents the remote site answers with *)

NioItem == Li(<<>>, Some(Anchor(Some("/apple/swift-nio"), Some("SwiftNIO"), Some("Fast networking"))))
VaporItem == Li(<<>>, Some(Anchor(Some("/vapor/vapor"), None, None)))
OneSegmentItem == Li(<<>>, Some(Anchor(Some("/onlyone"), Some("Bad"), None)))
NoAnchorItem == Li(<<>>, None)
PageLink == Some(Anchor(Some("/search?query=x&page=2"), None, None))
FilterUl == Ul(<<"filter-list">>, <<Li(<<>>, None)>>)
NextUl == Ul(<<"pagination">>, <<Li(<<"previous">>, PageLink), Li(<<"next">>, PageLink)>>)
LastPageUl == Ul(<<"pagination">>, <<Li(<<"previous">>, PageLink)>>)

EmptyDocument == Document(None, <<>>)

Documents ==
    {EmptyDocument,
     Document(Some(<<FilterUl, Ul(<<>>, <<NioItem, VaporItem>>), NextUl>>), <<>>),
     Document(Some(<<Ul(<<>>, <<OneSegmentItem, NioItem, NoAnchorItem>>), LastPageUl>>), <<>>),
     Document(Some(<<FilterUl, Ul(<<>>, <<>>)>>), <<NextUl>>),
     Document(Some(<<FilterUl, NextUl>>), <<>>),
     Document(Some(<<Ul(<<>>, <<VaporItem>>)>>), <<>>)}

----------------------------------------------------------------------------
(* search_packages, scraper.py:287-383 *)

ResponseFields ==
    {"query", "results", "result_count", "page", "has_more", "spi_search_url", "next_step"}

GuidanceText ==
    "Provide a search query or at least one filter (e.g. author, keyword, min_stars)."

\* The connection failure answered with the wording of the timeout.
ConnectErrorText_as_timeout ==
    "RETRYABLE: Swift Package Index took too long to respond. Retry the same search -- transient timeouts are common."

\* In the source the timeout message has an em dash where "--" stands here.
TimeoutText ==
    "RETRYABLE: Swift Package Index took too long to respond. Retry the same search -- transient timeouts are common."

ConnectErrorText ==
    "RETRYABLE: Could not connect to swiftpackageindex.com. The site may be temporarily down. Retry in 30 seconds."

\* The blank test left out.
insufficient_input_never(q) == FALSE

\* Only the empty string taken as blank.
insufficient_input_only_empty(q) == q = ""

\* scraper.py:319, "if not query_string.strip()"
insufficient_input(q) == Strip(q, Whitespace) = ""

\* The guidance envelope always reporting page 1.
guidance_response_first_page(p) ==
    [query |-> "", results |-> <<>>, result_count |-> 0, page |-> 1,
     has_more |-> FALSE, spi_search_url |-> SPI_SEARCH_URL, next_step |-> GuidanceText]

\* scraper.py:320-328
guidance_response(p) ==
    [query |-> "", results |-> <<>>, result_count |-> 0, page |-> p,
     has_more |-> FALSE, spi_search_url |-> SPI_SEARCH_URL, next_step |-> GuidanceText]

\* The envelope with the URL and the query string in each other's field.
_error_response_url_as_query(q, p, url, next_step) ==
    [query |-> url, results |-> <<>>, result_count |-> 0, page |-> p,
     has_more |-> FALSE, spi_search_url |-> q, next_step |-> next_step]

\* _error_response, scraper.py:248-262
_error_response(q, p, url, next_step) ==
    [query |-> q, results |-> <<>>, result_count |-> 0, page |-> p,
     has_more |-> FALSE, spi_search_url |-> url, next_step |-> next_step]

\* raise_for_status raising for 4xx and 5xx only.
raises_for_status_client_server_only(status) == status >= 400

\* No status raising.
raises_for_status_never(status) == FALSE

\* response.raise_for_status(), scraper.py:338: raises HTTPStatusError unless
\* the status is a success status, 2xx.
raises_for_status(status) == ~(200 <= status /\ status <= 299)

\* The hint naming the current page instead of the next one.
next_step_hint_current_page(results, has_more, p) ==
    IF Len(results) > 0
    THEN IF has_more
         THEN "Use get_package_readme(owner, repo) to read the README of any result. Pass page="
                  \o IntStr(p) \o " to see more results."
         ELSE "Use get_package_readme(owner, repo) to read the README of any result."
    ELSE "No results found. Try broadening your search -- remove filters or use different keywords."

\* The next-action hint, scraper.py:366-373 ("--" stands for the em dash of
\* the source's no-results text).
next_step_hint(results, has_more, p) ==
    IF Len(results) > 0
    THEN IF has_more
         THEN "Use get_package_readme(owner, repo) to read the README of any result. Pass page="
                  \o IntStr(p + 1) \o " to see more results."
         ELSE "Use get_package_readme(owner, repo) to read the README of any result."
    ELSE "No results found. Try broadening your search -- remove filters or use different keywords."

\* Number of <li> children of the results list, whether they parse or not.
ItemCount(doc) ==
    LET package_section == FindClass(doc, "section", "package-results")
    IN  IF IsNone(package_section) \/ IsNone(package_list_of(Val(package_section))) THEN 0
        ELSE Len(FindAllChildren(Val(package_list_of(Val(package_section))), "li"))

\* The success path with result_count taken from the list items.
search_response_counting_items(q, p, url, html) ==
    LET results == parse_search_results(html)
        has_more == _has_more_pages(html)
    IN  [query |-> q, results |-> results, result_count |-> ItemCount(html), page |-> p,
         has_more |-> has_more, spi_search_url |-> url,
         next_step |-> next_step_hint(results, has_more, p)]

\* The success path, scraper.py:361-383
search_response(q, p, url, html) ==
    LET results == parse_search_results(html)
        has_more == _has_more_pages(html)
    IN  [query |-> q, results |-> results, result_count |-> Len(results), page |-> p,
         has_more |-> has_more, spi_search_url |-> url,
         next_step |-> next_step_hint(results, has_more, p)]

----------------------------------------------------------------------------
(* What the awaited client.get can produce: a response with a status and a  *)
(* body, or an exception: httpx.TimeoutException, httpx.ConnectError, or    *)
(* another httpx.TransportError such as ReadError or RemoteProtocolError.   *)

Statuses == {200, 204, 301, 403, 404, 418, 429, 500, 503}

HttpResponse(status, body) == [kind |-> "response", status |-> status, body |-> body]
Raised(kind) == [kind |-> kind, status |-> 0, body |-> EmptyDocument]

Outcomes ==
    {HttpResponse(st, d) : st \in Statuses, d \in Documents}
        \cup {Raised("timeout"), Raised("connect_error"), Raised("other_error")}

SearchArgs ==
    {[NoArgs EXCEPT !.query = q, !.author = a, !.min_stars = m, !.platforms = pl] :
        q \in {"", " ", "json"},
        a \in {None, Some("apple")},
        m \in {None, Some(0)},
        pl \in {None, Some(<<>>), Some(<<"ios", "linux">>)}}

Init ==
    /\ pc = "call"
    /\ args \in SearchArgs
    /\ page \in 0..MaxPage
    /\ query_string = ""
    /\ search_url = ""
    /\ client = "none"
    /\ n_clients = 0
    /\ requests = <<>>
    /\ outcome = None
    /\ ret = None
    /\ exc = "none"
    /\ status_code = 0
    /\ message = None
    /\ ReadmeIdle

\* scraper.py:304-330: build the query; return the guidance envelope when it
\* is blank, else build the URL.
SearchStart ==
    /\ pc = "call"
    /\ UNCHANGED <<readme_vars, calls, clients>>
    /\ query_string' = build_query(args)
    /\ IF insufficient_input(query_string')
       THEN /\ ret' = Some(guidance_response(page))
            /\ pc' = "returned"
            /\ UNCHANGED search_url
       ELSE /\ search_url' = _build_search_url(query_string', page)
            /\ pc' = "url_built"
            /\ UNCHANGED ret
    /\ UNCHANGED <<args, page, client, n_clients, requests, outcome, exc,
                   status_code, message>>

\* scraper.py:336: async with httpx.AsyncClient(...) as client
OpenClient ==
    /\ pc = "url_built"
    /\ UNCHANGED <<readme_vars, calls, clients>>
    /\ client' = "open"
    /\ n_clients' = n_clients + 1
    /\ pc' = "client_open"
    /\ UNCHANGED <<args, page, query_string, search_url, requests, outcome, ret,
                   exc, status_code, message>>

\* scraper.py:337: the GET is issued and awaited
SendGet ==
    /\ pc = "client_open"
    /\ UNCHANGED <<readme_vars, calls, clients>>
    /\ requests' = Append(requests, search_url)
    /\ pc' = "awaiting"
    /\ UNCHANGED <<args, page, query_string, search_url, client, n_clients,
                   outcome, ret, exc, status_code, message>>

\* The remote side answers, or the transport fails.
Receive ==
    /\ pc = "awaiting"
    /\ UNCHANGED <<readme_vars, calls, clients>>
    /\ \E o \in Outcomes : outcome' = Some(o)
    /\ pc' = "received"
    /\ UNCHANGED <<args, page, query_string, search_url, client, n_clients,
                   requests, ret, exc, status_code, message>>

\* scraper.py:338-383 for the outcome o of the GET: raise_for_status, the
\* three except clauses, and the success path.  An exception none of the
\* except clauses names leaves the call.
Settle(o) ==
    CASE o.kind = "timeout" ->
            /\ ret' = Some(_error_response(query_string, page, search_url, TimeoutText))
            /\ pc' = "returned"
            /\ UNCHANGED <<exc, status_code, message>>
      [] o.kind = "connect_error" ->
            /\ ret' = Some(_error_response(query_string, page, search_url, ConnectErrorText))
            /\ pc' = "returned"
            /\ UNCHANGED <<exc, status_code, message>>
      [] o.kind = "other_error" ->
            /\ exc' = "httpx.TransportError"
            /\ pc' = "raised"
            /\ UNCHANGED <<ret, status_code, message>>
      [] o.kind = "response" /\ raises_for_status(o.status) ->
            /\ status_code' = o.status
            /\ message' = Some(_classify_http_error(o.status))
            /\ ret' = Some(_error_response(query_string, page, search_url,
                                           _classify_http_error(o.status)))
            /\ pc' = "returned"
            /\ UNCHANGED exc
      [] o.kind = "response" /\ ~raises_for_status(o.status) ->
            /\ ret' = Some(search_response(query_string, page, search_url, o.body))
            /\ pc' = "returned"
            /\ UNCHANGED <<exc, status_code, message>>

\* Complete with a retry added: a request that timed out is sent once more.
Complete_retrying_timeout ==
    /\ pc = "received"
    /\ UNCHANGED <<readme_vars, calls, clients>>
    /\ IF Val(outcome).kind = "timeout" /\ Len(requests) < 2
       THEN /\ pc' = "client_open"
            /\ UNCHANGED <<client, ret, exc, status_code, message>>
       ELSE /\ client' = "closed"
            /\ Settle(Val(outcome))
    /\ UNCHANGED <<args, page, query_string, search_url, n_clients, requests, outcome>>

\* Complete without the exit of the async with block: the client stays open.
Complete_leaving_client_open ==
    /\ pc = "received"
    /\ UNCHANGED <<readme_vars, calls, clients>>
    /\ Settle(Val(outcome))
    /\ UNCHANGED <<args, page, query_string, search_url, client, n_clients,
                   requests, outcome>>

\* scraper.py:336-383: the GET has completed; the async with block is left,
\* which closes the client, and the call returns or raises.
Complete ==
    /\ pc = "received"
    /\ UNCHANGED <<readme_vars, calls, clients>>
    /\ client' = "closed"
    /\ Settle(Val(outcome))
    /\ UNCHANGED <<args, page, query_string, search_url, n_clients, requests, outcome>>

Next == SearchStart \/ OpenClient \/ SendGet \/ Receive \/ Complete

Spec == Init /\ [][Next]_vars

----------------------------------------------------------------------------
(* The paths of a search_packages call, read off a state *)

Returned == pc = "returned"
Finished == pc \in {"returned", "raised"}

InsufficientInputPath == Returned /\ requests = <<>>
TimeoutPath == Returned /\ ~IsNone(outcome) /\ Val(outcome).kind = "timeout"
ConnectFailurePath == Returned /\ ~IsNone(outcome) /\ Val(outcome).kind = "connect_error"
HttpErrorPath ==
    /\ Returned /\ ~IsNone(outcome) /\ Val(outcome).kind = "response"
    /\ ~(200 <= Val(outcome).status /\ Val(outcome).status <= 299)
SuccessPath ==
    /\ Returned /\ ~IsNone(outcome) /\ Val(outcome).kind = "response"
    /\ 200 <= Val(outcome).status /\ Val(outcome).status <= 299
FailurePath == InsufficientInputPath \/ TimeoutPath \/ ConnectFailurePath \/ HttpErrorPath

(* C1: every SearchResponse search_packages returns, on every path, has     *)
(* result_count equal to the length of results.                             *)
C1_CountMatchesResults ==
    ~IsNone(ret) => Val(ret).result_count = Len(Val(ret).results)

\* C1 witness: a successful fetch returned two results, counted as two.
C1_Witness ==
    /\ SuccessPath
    /\ Len(Val(ret).results) = 2
    /\ Val(ret).result_count = 2

\* C1 witness: an item was skipped, so fewer results than items were counted.
C1_WitnessSkipped ==
    /\ SuccessPath
    /\ ItemCount(Val(outcome).body) = 3
    /\ Val(ret).result_count = 1

(* C2: on every failure path (insufficient input, timeout, connection       *)
(* failure, non-2xx status) the returned response has no results and        *)
(* has_more false, and is a SearchResponse with the fields of a success.    *)
C2_FailureEnvelope ==
    /\ FailurePath =>
          /\ ~IsNone(ret)
          /\ Val(ret).results = <<>>
          /\ Val(ret).has_more = FALSE
    /\ ~IsNone(ret) => DOMAIN Val(ret) = ResponseFields

\* C2 witness: a non-2xx response whose body holds results and a next link
\* was returned as an empty envelope.
C2_Witness ==
    /\ HttpErrorPath
    /\ Val(outcome).status = 301
    /\ Len(parse_search_results(Val(outcome).body)) = 2
    /\ _has_more_pages(Val(outcome).body)
    /\ Val(ret).results = <<>>

(* C3 as stated: no exception crosses the boundary of search; for every     *)
(* outcome of the request the call ends by returning a SearchResponse.      *)
C3_NeverRaises ==
    Finished => (exc = "none" /\ ~IsNone(ret) /\ DOMAIN Val(ret) = ResponseFields)

(* C4: with the free text and every filter empty or absent, build_query     *)
(* gives "" and the call returns the guidance envelope with zero results,   *)
(* having created no client and issued no request.                          *)
C4_NoInputNoNetwork ==
    (NothingSupplied(args) /\ pc # "call") =>
        /\ query_string = ""
        /\ pc = "returned"
        /\ ret = Some(guidance_response(page))
        /\ StartsWith(Val(ret).next_step, "Provide a search query")
        /\ Val(ret).results = <<>> /\ Val(ret).result_count = 0
        /\ n_clients = 0 /\ client = "none" /\ requests = <<>>

\* C4 witness: the call with an empty platform list and nothing else returned.
C4_Witness ==
    /\ pc = "returned"
    /\ args.query = "" /\ args.platforms = Some(<<>>) /\ IsNone(args.author)
    /\ IsNone(args.min_stars)
    /\ n_clients = 0

(* C5 as stated: a call whose built query is non-empty issues exactly one   *)
(* GET.                                                                     *)
C5_OneGetIfNonEmpty ==
    /\ Len(requests) <= 1
    /\ (Finished /\ query_string # "") => Len(requests) = 1

(* C5 amended: a call whose built query has a non-whitespace character      *)
(* issues exactly one GET, for the URL it built: none is issued again after *)
(* a timeout, a connection failure, a 429 or a 5xx, nor after a success.    *)
C5_OneGetIfNonBlank ==
    /\ Len(requests) <= 1
    /\ (Finished /\ Strip(query_string, Whitespace) # "") => requests = <<search_url>>

\* C5 witness: the call returned after a timeout with one GET issued.
C5_Witness ==
    /\ TimeoutPath
    /\ Len(requests) = 1
    /\ StartsWith(Val(ret).next_step, "RETRYABLE")


(* C11: when the site answers a non-2xx status s, the next_step of the      *)
(* returned envelope is exactly _classify_http_error(s), its query is the   *)
(* query string that was built from the arguments and its spi_search_url is *)
(* the URL the GET was sent to.                                             *)
C11_HttpErrorEnvelope ==
    HttpErrorPath =>
        /\ Val(ret).next_step = _classify_http_error(Val(outcome).status)
        /\ Val(ret).query = build_query(args)
        /\ Len(requests) = 1
        /\ Val(ret).spi_search_url = requests[1]
        /\ Val(ret).spi_search_url = _build_search_url(build_query(args), page)

\* C11 witness: a 503 answer to a search for "json" by apple, page 2.
C11_Witness ==
    /\ HttpErrorPath
    /\ Val(outcome).status = 503
    /\ page = 2
    /\ Val(ret).query = "json author:apple"
    /\ Val(ret).spi_search_url = SPI_SEARCH_URL \o "?query=json+author%3Aapple&page=2"
    /\ IsRetryable(Val(ret).next_step)
    /\ Contains(Val(ret).next_step, "503")

(* C12: a timeout and a connection failure each give an envelope whose      *)
(* next_step starts with RETRYABLE; the two wordings differ from one        *)
(* another, and neither is a text the status-code classifier produces, nor  *)
(* is the classifier called on these paths.                                 *)
C12_TransportFailureWording ==
    /\ TimeoutPath =>
          /\ IsRetryable(Val(ret).next_step)
          /\ Contains(Val(ret).next_step, "took too long")
          /\ Val(ret).next_step # ConnectErrorText
          /\ IsNone(message)
          /\ \A s \in StatusCodes : _classify_http_error(s) # Val(ret).next_step
    /\ ConnectFailurePath =>
          /\ IsRetryable(Val(ret).next_step)
          /\ Contains(Val(ret).next_step, "Could not connect")
          /\ Val(ret).next_step # TimeoutText
          /\ IsNone(message)
          /\ \A s \in StatusCodes : _classify_http_error(s) # Val(ret).next_step

\* C12 witness: a connection failure was answered with the 30-second advice.
C12_Witness ==
    /\ ConnectFailurePath
    /\ Len(requests) = 1
    /\ Contains(Val(ret).next_step, "Retry in 30 seconds")
    /\ ~Contains(Val(ret).next_step, "took too long")


----------------------------------------------------------------------------
(* fetch_readme and _truncate_readme, scraper.py:386-423, and the tool      *)
(* get_package_readme, server.py:126-153.                                   *)

\* Longest README text of the truncation behaviours.
MaxContentLen == 12

\* scraper.py:389; the source has an em dash where "--" stands here.
TruncationNote(n) ==
    "\n\n... [truncated -- full README is " \o IntStr(n)
        \o " chars. Pass max_length=0 for full.]"

\* Truncation that also cuts a text of exactly max_length characters.
_truncate_readme_at_equal_length(content, max_length) ==
    IF max_length > 0 /\ Len(content) >= max_length
    THEN SubSeq(content, 1, max_length) \o TruncationNote(Len(content))
    ELSE content

\* _truncate_readme, scraper.py:386-391
_truncate_readme(content, max_length) ==
    IF max_length > 0 /\ Len(content) > max_length
    THEN SubSeq(content, 1, max_length) \o TruncationNote(Len(content))
    ELSE content

\* server.py:152
effective_max(max_length) == IF max_length > 0 THEN max_length ELSE 999999

\* scraper.py:402
filenames == <<"README.md", "README.rst", "README.txt", "README", "readme.md">>

\* scraper.py:403
branches == <<"main", "master">>

\* The loops nested the other way round: filename outer, branch inner.
candidates_filename_outer ==
    [k \in 1..(Len(branches) * Len(filenames)) |->
        [branch   |-> branches[((k - 1) % Len(branches)) + 1],
         filename |-> filenames[((k - 1) \div Len(branches)) + 1]]]

\* Only the first branch probed.
candidates_first_branch_only ==
    [k \in 1..Len(filenames) |-> [branch |-> branches[1], filename |-> filenames[k]]]

\* scraper.py:407-408: the (branch, filename) pairs in the order the nested
\* for loops visit them.
candidates ==
    [k \in 1..(Len(branches) * Len(filenames)) |->
        [branch   |-> branches[((k - 1) \div Len(filenames)) + 1],
         filename |-> filenames[((k - 1) % Len(filenames)) + 1]]]

\* scraper.py:409
raw_url(owner, repo, c) ==
    "https://raw.githubusercontent.com/" \o owner \o "/" \o repo \o "/"
        \o c.branch \o "/" \o c.filename

\* A 429 treated like any other miss.
rate_limited_never(status) == FALSE

\* scraper.py:413
rate_limited(status) == status = 429

\* scraper.py:414
RateLimitedText(owner, repo) ==
    "RETRYABLE: GitHub rate limited the request for " \o owner \o "/" \o repo
        \o ". Wait 60 seconds, then retry."

\* scraper.py:416
ReadmeTimeoutText(owner, repo) ==
    "RETRYABLE: GitHub took too long to respond for " \o owner \o "/" \o repo
        \o ". Retry the same request."

\* The connection failure reported without the repository.
ReadmeConnectErrorText_unnamed(owner, repo) ==
    "RETRYABLE: Could not connect to GitHub. Retry in 30 seconds."

\* scraper.py:418
ReadmeConnectErrorText(owner, repo) ==
    "RETRYABLE: Could not connect to GitHub for " \o owner \o "/" \o repo
        \o ". Retry in 30 seconds."

\* scraper.py:420-423
NotFoundText(owner, repo) ==
    "README not found for " \o owner \o "/" \o repo
        \o ". The repository may be private, archived, or use a non-standard default branch. Check https://github.com/"
        \o owner \o "/" \o repo \o " manually."

\* What client.get of a probe can produce: a response with a status and a
\* text, or an httpx exception.
TextResponse(status, text) == [kind |-> "response", status |-> status, body |-> text]
ProbeRaised(kind) == [kind |-> kind, status |-> 0, body |-> ""]

ReadmeTexts == {"", "# SwiftNIO"}

\* Statuses that are neither 200 nor 429.
MissStatuses == {404, 503}

ReadmeOutcomes ==
    {TextResponse(200, t) : t \in ReadmeTexts}
        \cup {TextResponse(s, "") : s \in MissStatuses \cup {429}}
        \cup {ProbeRaised(k) : k \in {"timeout", "connect_error", "other_error"}}

Repositories == {<<"apple", "swift-nio">>, <<"vapor", "vapor">>}

ReadmeCall(owner, repo, max_length, tool_max_length) ==
    /\ readme_args = [owner |-> owner, repo |-> repo, max_length |-> max_length,
                      tool_max_length |-> tool_max_length]
    /\ answers = <<>>
    /\ NoCalls
    /\ args = NoArgs
    /\ page = 1
    /\ query_string = ""
    /\ search_url = ""
    /\ client = "none"
    /\ n_clients = 0
    /\ requests = <<>>
    /\ outcome = None
    /\ ret = None
    /\ exc = "none"
    /\ status_code = 0
    /\ message = None

\* fetch_readme(owner, repo, max_length=...) is called.
InitReadme ==
    /\ pc = "readme_call"
    /\ \E r \in Repositories, m \in {0, 5} : ReadmeCall(r[1], r[2], m, None)

\* scraper.py:406: async with httpx.AsyncClient(...) as client
ReadmeOpenClient ==
    /\ pc = "readme_call"
    /\ UNCHANGED <<calls, clients>>
    /\ client' = "open"
    /\ n_clients' = n_clients + 1
    /\ pc' = "probe"
    /\ UNCHANGED <<args, page, query_string, search_url, requests, outcome, ret,
                   exc, status_code, message, readme_args, answers>>

\* scraper.py:407-410: the next candidate of the loops is requested.
ProbeGet ==
    /\ pc = "probe"
    /\ UNCHANGED <<calls, clients>>
    /\ Len(requests) < Len(candidates)
    /\ requests' = Append(requests,
                          raw_url(readme_args.owner, readme_args.repo,
                                  candidates[Len(requests) + 1]))
    /\ pc' = "probing"
    /\ UNCHANGED <<args, page, query_string, search_url, client, n_clients,
                   outcome, ret, exc, status_code, message, readme_args, answers>>

\* The host answers the probe with one of the outcomes of O, or the
\* transport fails.
ProbeAnswerFrom(O) ==
    /\ pc = "probing"
    /\ UNCHANGED <<calls, clients>>
    /\ \E o \in O :
          /\ outcome' = Some(o)
          /\ answers' = Append(answers, [kind |-> o.kind, status |-> o.status])
    /\ pc' = "probed"
    /\ UNCHANGED <<args, page, query_string, search_url, client, n_clients,
                   requests, ret, exc, status_code, message, readme_args>>

ProbeAnswer == ProbeAnswerFrom(ReadmeOutcomes)

\* scraper.py:411-423 for the outcome of the probe: return on 200 and on
\* 429, go on to the next candidate on any other status, return the
\* not-found text when the loops are exhausted, return on the two caught
\* exceptions.  Leaving the async with block closes the client; an exception
\* no except clause names leaves the call.
ProbeSettle ==
    /\ pc = "probed"
    /\ UNCHANGED <<calls, clients>>
    /\ LET o == Val(outcome)
           owner == readme_args.owner
           repo == readme_args.repo
       IN  CASE o.kind = "response" /\ o.status = 200 ->
                  /\ ret' = Some(_truncate_readme(o.body, readme_args.max_length))
                  /\ client' = "closed"
                  /\ pc' = "returned"
                  /\ UNCHANGED exc
             [] o.kind = "response" /\ o.status # 200 /\ rate_limited(o.status) ->
                  /\ ret' = Some(RateLimitedText(owner, repo))
                  /\ client' = "closed"
                  /\ pc' = "returned"
                  /\ UNCHANGED exc
             [] o.kind = "response" /\ o.status # 200 /\ ~rate_limited(o.status) ->
                  IF Len(requests) < Len(candidates)
                  THEN /\ pc' = "probe"
                       /\ UNCHANGED <<client, ret, exc>>
                  ELSE /\ ret' = Some(NotFoundText(owner, repo))
                       /\ client' = "closed"
                       /\ pc' = "returned"
                       /\ UNCHANGED exc
             [] o.kind = "timeout" ->
                  /\ ret' = Some(ReadmeTimeoutText(owner, repo))
                  /\ client' = "closed"
                  /\ pc' = "returned"
                  /\ UNCHANGED exc
             [] o.kind = "connect_error" ->
                  /\ ret' = Some(ReadmeConnectErrorText(owner, repo))
                  /\ client' = "closed"
                  /\ pc' = "returned"
                  /\ UNCHANGED exc
             [] o.kind = "other_error" ->
                  /\ exc' = "httpx.TransportError"
                  /\ client' = "closed"
                  /\ pc' = "raised"
                  /\ UNCHANGED ret
    /\ UNCHANGED <<args, page, query_string, search_url, n_clients, requests,
                   outcome, status_code, message, readme_args, answers>>

NextReadme == ReadmeOpenClient \/ ProbeGet \/ ProbeAnswer \/ ProbeSettle

SpecReadme == InitReadme /\ [][NextReadme]_vars


\* A call of either search_packages or fetch_readme.
InitCalls == Init \/ InitReadme

NextCalls == Next \/ NextReadme

SpecCalls == InitCalls /\ [][NextCalls]_vars

(* C13: a search_packages or fetch_readme call that reaches the network     *)
(* creates one client of its own, and that client is closed on every way    *)
(* out of the call: the normal return, the early return on 200 or 429       *)
(* inside the probe loop, a caught transport exception and an exception     *)
(* that leaves the call.  No client is open once the call has returned or   *)
(* raised, and a client is open only while the call is inside its block.    *)
C13_ClientClosedOnExit ==
    /\ n_clients <= 1
    /\ requests # <<>> => n_clients = 1
    /\ Finished => client # "open"
    /\ Finished /\ requests # <<>> => client = "closed"
    /\ Finished /\ requests = <<>> => client = "none" /\ n_clients = 0
    /\ client = "open" =>
          pc \in {"client_open", "awaiting", "received", "probe", "probing", "probed"}

\* C13 witness: fetch_readme left by an uncaught exception on its third
\* probe, with its client closed.
C13_Witness ==
    /\ pc = "raised"
    /\ readme_args.owner = "apple"
    /\ Len(requests) = 3
    /\ answers[3].kind = "other_error"
    /\ client = "closed"
    /\ n_clients = 1


\* Helpers of the claims on fetch_readme.
RepoName == readme_args.owner \o "/" \o readme_args.repo

IsMiss(a) == a.kind = "response" /\ a.status # 200 /\ a.status # 429

IsTransportFailure(a) == a.kind \in {"timeout", "connect_error"}

LastAnswer == answers[Len(answers)]

\* The order of the probes as the claim spells it out.
ProbeOrder ==
    << <<"main", "README.md">>, <<"main", "README.rst">>, <<"main", "README.txt">>,
       <<"main", "README">>, <<"main", "readme.md">>,
       <<"master", "README.md">>, <<"master", "README.rst">>,
       <<"master", "README.txt">>, <<"master", "README">>, <<"master", "readme.md">> >>

(* C14: fetch_readme probes branch-outer (main, master), filename-inner     *)
(* (README.md, README.rst, README.txt, README, readme.md), one GET at a     *)
(* time: a GET is sent only after every earlier one was answered.  It      *)
(* returns the body of the first candidate that answers 200, cut by         *)
(* _truncate_readme, and sends no GET for a later candidate.                *)
C14_ProbeOrderFirst200 ==
    /\ Len(requests) <= Len(ProbeOrder)
    /\ \A k \in 1..Len(requests) :
          requests[k] = "https://raw.githubusercontent.com/" \o RepoName \o "/"
                            \o ProbeOrder[k][1] \o "/" \o ProbeOrder[k][2]
    /\ Len(answers) \in {Len(requests), Len(requests) - 1}
    /\ pc = "probing" <=> Len(answers) = Len(requests) - 1
    /\ \A k \in 1..Len(answers) :
          answers[k].kind = "response" /\ answers[k].status = 200 => Len(requests) = k
    /\ Finished /\ answers # <<>> /\ LastAnswer.kind = "response" /\ LastAnswer.status = 200 =>
          /\ Returned
          /\ \A k \in 1..(Len(answers) - 1) : IsMiss(answers[k])
          /\ Val(ret) = _truncate_readme(Val(outcome).body, readme_args.max_length)
          /\ readme_args.max_length = 0 => Val(ret) = Val(outcome).body

\* C14 witness: master/README.rst, the seventh candidate, was the first to
\* answer 200 and its text was returned.
C14_Witness ==
    /\ Returned
    /\ Len(requests) = 7
    /\ requests[7] = "https://raw.githubusercontent.com/apple/swift-nio/master/README.rst"
    /\ LastAnswer.status = 200
    /\ readme_args.max_length = 0
    /\ Val(ret) = "# SwiftNIO"

(* C15: when a candidate answers 429, fetch_readme stops at once: it        *)
(* returns a message that starts with RETRYABLE and names owner/repo, and   *)
(* no later candidate is requested.                                         *)
C15_RateLimitStops ==
    \A k \in 1..Len(answers) :
        answers[k].kind = "response" /\ answers[k].status = 429 =>
            /\ Len(requests) = k
            /\ pc \in {"probed", "returned"}
            /\ pc = "returned" =>
                  /\ StartsWith(Val(ret), "RETRYABLE")
                  /\ Contains(Val(ret), RepoName)

\* C15 witness: the third candidate answered 429 after two misses.
C15_Witness ==
    /\ Returned
    /\ Len(requests) = 3
    /\ IsMiss(answers[1]) /\ IsMiss(answers[2])
    /\ answers[3].status = 429
    /\ Val(ret) = "RETRYABLE: GitHub rate limited the request for vapor/vapor. Wait 60 seconds, then retry."

(* C16: when every candidate answers a status other than 200 and 429,       *)
(* fetch_readme returns after exactly 10 GETs a message that contains       *)
(* "not found" and "<owner>/<repo>"; it never sends more than 10 GETs.  The *)
(* message holds "not found" in lower case, so the containment holds        *)
(* whatever the case sensitivity of the comparison.                         *)
C16_NotFoundAfterTen ==
    /\ Len(requests) <= 10
    /\ Finished /\ (\A k \in 1..Len(answers) : IsMiss(answers[k])) =>
          /\ Returned
          /\ Len(requests) = 10
          /\ Len(answers) = 10
          /\ Contains(Val(ret), "not found")
          /\ Contains(Val(ret), RepoName)

\* C16 witness: ten misses, some 404 and some 503, then the not-found text.
C16_Witness ==
    /\ Returned
    /\ Len(answers) = 10
    /\ \A k \in 1..10 : IsMiss(answers[k])
    /\ answers[1].status = 404
    /\ answers[10].status = 503
    /\ StartsWith(Val(ret), "README not found for apple/swift-nio.")

(* C17: a timeout or a connection failure on any probe ends the probing:    *)
(* no further candidate is requested, and the call returns a message that   *)
(* starts with RETRYABLE and contains "<owner>/<repo>".                     *)
C17_TransportFailureStops ==
    \A k \in 1..Len(answers) :
        IsTransportFailure(answers[k]) =>
            /\ Len(requests) = k
            /\ pc \in {"probed", "returned"}
            /\ pc = "returned" =>
                  /\ StartsWith(Val(ret), "RETRYABLE")
                  /\ Contains(Val(ret), RepoName)

\* C17 witness: the connection failed on the sixth probe.
C17_Witness ==
    /\ Returned
    /\ Len(requests) = 6
    /\ answers[6].kind = "connect_error"
    /\ Val(ret) = "RETRYABLE: Could not connect to GitHub for apple/swift-nio. Retry in 30 seconds."

(* C18 as stated: fetch_readme gives a string back on every failure path    *)
(* and never raises, whatever the probes produce (any status, a timeout, a  *)
(* connection failure, any other transport failure).                        *)
C18_ReadmeAlwaysReturnsString ==
    /\ exc = "none"
    /\ Finished => Returned /\ ~IsNone(ret)


----------------------------------------------------------------------------
(* _truncate_readme on its own, scraper.py:386-391.                         *)

SampleReadme == "# SwiftNIO\n\nEvent-driven network application framework."

\* README texts of every length up to MaxContentLen.
SampleTexts == {SubSeq(SampleReadme, 1, n) : n \in 0..MaxContentLen}

\* _truncate_readme(content, max_length) is about to be called.
InitTruncate ==
    /\ pc = "truncate_call"
    /\ \E c \in SampleTexts, m \in (-2)..(MaxContentLen + 1) :
          /\ outcome = Some(TextResponse(200, c))
          /\ readme_args = [owner |-> "apple", repo |-> "swift-nio", max_length |-> m,
                            tool_max_length |-> None]
    /\ answers = <<>>
    /\ NoCalls
    /\ args = NoArgs
    /\ page = 1
    /\ query_string = ""
    /\ search_url = ""
    /\ client = "none"
    /\ n_clients = 0
    /\ requests = <<>>
    /\ ret = None
    /\ exc = "none"
    /\ status_code = 0
    /\ message = None

Truncate ==
    /\ pc = "truncate_call"
    /\ UNCHANGED <<calls, clients>>
    /\ ret' = Some(_truncate_readme(Val(outcome).body, readme_args.max_length))
    /\ pc' = "truncated"
    /\ UNCHANGED <<args, page, query_string, search_url, client, n_clients,
                   requests, outcome, exc, status_code, message, readme_args,
                   answers>>

NextTruncate == Truncate

SpecTruncate == InitTruncate /\ [][NextTruncate]_vars

(* C19: _truncate_readme(content, max): when max > 0 and content is longer  *)
(* than max, the result is the first max characters of content followed by  *)
(* a note that says the text was truncated and gives the length of the      *)
(* original; otherwise the result is content, unchanged.                    *)
C19_TruncatePrefixAndNote ==
    pc = "truncated" =>
        LET content == Val(outcome).body
            max == readme_args.max_length
            result == Val(ret)
        IN  IF max > 0 /\ Len(content) > max
            THEN /\ Len(result) > max
                 /\ SubSeq(result, 1, max) = SubSeq(content, 1, max)
                 /\ LET note == SubSeq(result, max + 1, Len(result))
                    IN  /\ Contains(note, "truncated")
                        /\ Contains(note, "is " \o IntStr(Len(content)) \o " chars")
            ELSE result = content

\* C19 witness: a text of 12 characters cut to 5, and the note gives 12.
C19_Witness ==
    /\ pc = "truncated"
    /\ Val(outcome).body = "# SwiftNIO\n\n"
    /\ readme_args.max_length = 5
    /\ Val(ret) = "# Swi\n\n... [truncated -- full README is 12 chars. Pass max_length=0 for full.]"


----------------------------------------------------------------------------
(* The tool get_package_readme, server.py:126-153, in front of fetch_readme. *)

\* c repeated n times.
RECURSIVE Repeat(_, _)
Repeat(c, n) ==
    IF n = 0 THEN ""
    ELSE IF n = 1 THEN c
    ELSE LET h == Repeat(c, n \div 2)
         IN  IF n % 2 = 0 THEN h \o h ELSE h \o h \o c

\* A README one character longer than the length the tool passes on for
\* max_length = 0.
LongReadme == Repeat("x", effective_max(0) + 1)

LongOutcomes ==
    {TextResponse(200, t) : t \in {"# SwiftNIO", LongReadme}} \cup {TextResponse(404, "")}

\* get_package_readme(owner, repo, max_length) is called.
InitTool ==
    /\ pc = "tool_call"
    /\ \E r \in Repositories, m \in {-1, 0, 5, 4000} : ReadmeCall(r[1], r[2], 0, Some(m))

\* server.py:152-153: the length handed to fetch_readme.
GetPackageReadme ==
    /\ pc = "tool_call"
    /\ UNCHANGED <<calls, clients>>
    /\ readme_args' = [readme_args EXCEPT
                          !.max_length = effective_max(Val(readme_args.tool_max_length))]
    /\ pc' = "readme_call"
    /\ UNCHANGED <<args, page, query_string, search_url, client, n_clients,
                   requests, outcome, ret, exc, status_code, message, answers>>

ProbeAnswerLong == ProbeAnswerFrom(LongOutcomes)

NextTool == GetPackageReadme \/ ReadmeOpenClient \/ ProbeGet \/ ProbeAnswerLong \/ ProbeSettle

SpecTool == InitTool /\ [][NextTool]_vars

(* C20 as stated: max_length = 0 means unlimited through the tool.  For a   *)
(* README of any length, get_package_readme(owner, repo, max_length=0)      *)
(* returns what fetch_readme(owner, repo, max_length=0) returns: the full   *)
(* text, verbatim, with no truncation note.                                 *)
C20_ZeroIsUnlimitedThroughTool ==
    /\ Returned
    /\ readme_args.tool_max_length = Some(0)
    /\ answers # <<>>
    /\ LastAnswer.kind = "response"
    /\ LastAnswer.status = 200
    => /\ Val(ret) = _truncate_readme(Val(outcome).body, 0)
       /\ Val(ret) = Val(outcome).body


----------------------------------------------------------------------------
(* parse_search_results and _has_more_pages on their own, scraper.py:200-245 *)

\* Longest results list of the documents.
MaxItems == 2

NoHrefItem == Li(<<>>, Some(Anchor(None, Some("NoHref"), None)))
EmptySegmentItem == Li(<<>>, Some(Anchor(Some("/apple//swift-nio"), None, None)))
AbsoluteHrefItem == Li(<<>>, Some(Anchor(Some("https://example.com/a/b"), Some("Elsewhere"), None)))
BlankNameItem == Li(<<>>, Some(Anchor(Some("/apple/swift-log"), Some(" "), Some(" Logging API "))))
\* The anchor one level down, inside a <div>.
DeepAnchorItem ==
    Element("li", <<>>, None,
            <<Element("div", <<>>, None,
                      <<Anchor(Some("pointfreeco/swift-tagged/"), Some("Tagged"), None)>>)>>)

ResultItems ==
    {NioItem, VaporItem, OneSegmentItem, NoAnchorItem, NoHrefItem, EmptySegmentItem,
     AbsoluteHrefItem, BlankNameItem, DeepAnchorItem}

ItemLists == UNION {[1..n -> ResultItems] : n \in 0..MaxItems}

\* A pagination list whose first "next" item holds no link; the second does.
TwoNextUl == Ul(<<"pagination">>, <<Li(<<"next">>, None), Li(<<"next">>, PageLink)>>)
\* A "next" item without a link.
DeadNextUl == Ul(<<"pagination", "bottom">>, <<Li(<<"next">>, None)>>)

Paginations ==
    {<<>>, <<NextUl>>, <<LastPageUl>>, <<LastPageUl, NextUl>>, <<TwoNextUl>>, <<DeadNextUl>>}

\* A filter list with a class-less list nested in its item.
NestedFilterUl ==
    Ul(<<"filter-list">>, <<Element("li", <<>>, None, <<Ul(<<>>, <<VaporItem>>)>>)>>)

\* The documents given to the parser: the results list lis and the
\* pagination lists pg in different places.
ParseDocuments ==
    {Document(Some(<<FilterUl, Ul(<<>>, lis)>> \o pg), <<>>) :
         lis \in ItemLists, pg \in Paginations}
      \cup {Document(Some(<<Ul(<<>>, lis), Ul(<<>>, <<NioItem>>)>>), pg) :
                lis \in ItemLists, pg \in Paginations}
      \cup {Document(None, <<Ul(<<>>, lis), NextUl>>) : lis \in ItemLists}
      \cup {Element("[document]", <<>>, None,
                    <<Element("section", <<"other">>, None, <<Ul(<<>>, lis), NextUl>>)>>) :
                lis \in ItemLists}
      \cup {Document(Some(<<FilterUl, Ul(<<"results">>, lis), NextUl>>), <<>>) :
                lis \in ItemLists}
      \cup {Document(Some(<<NestedFilterUl, Ul(<<>>, lis), NextUl>>), <<>>) :
                lis \in ItemLists}
      \cup {Document(Some(<<FilterUl, Element("div", <<>>, None, <<Ul(<<>>, lis)>>)>>), <<>>) :
                lis \in ItemLists}
      \cup {Element("[document]", <<>>, None, <<>>)}

\* A document is about to be parsed.
InitParse ==
    /\ pc = "parse_call"
    /\ \E d \in ParseDocuments : outcome = Some(HttpResponse(200, d))
    /\ args = NoArgs
    /\ page = 1
    /\ query_string = ""
    /\ search_url = ""
    /\ client = "none"
    /\ n_clients = 0
    /\ requests = <<>>
    /\ ret = None
    /\ exc = "none"
    /\ status_code = 0
    /\ message = None
    /\ ReadmeIdle

\* parse_search_results(html)
ParseResults ==
    /\ pc = "parse_call"
    /\ UNCHANGED <<calls, clients>>
    /\ ret' = Some(parse_search_results(Val(outcome).body))
    /\ pc' = "parsed"
    /\ UNCHANGED <<args, page, query_string, search_url, client, n_clients,
                   requests, outcome, exc, status_code, message, readme_args,
                   answers>>

\* _has_more_pages(html)
HasMorePages ==
    /\ pc = "parse_call"
    /\ UNCHANGED <<calls, clients>>
    /\ ret' = Some(_has_more_pages(Val(outcome).body))
    /\ pc' = "paged"
    /\ UNCHANGED <<args, page, query_string, search_url, client, n_clients,
                   requests, outcome, exc, status_code, message, readme_args,
                   answers>>

NextParse == ParseResults \/ HasMorePages

SpecParse == InitParse /\ [][NextParse]_vars

\* Helpers of the claims on the parser, on the document that was parsed.
Html == Val(outcome).body

IsResultsSection(el) == el.tag = "section" /\ HasClass(el, "package-results")

IsClasslessList(el) == el.tag = "ul" /\ el.class = <<>>

\* The sections marked package-results, in document order.
ResultsSections == SelectSeq(Descendants(Html), IsResultsSection)

(* C21: parse_search_results never raises, and it returns the empty         *)
(* sequence whenever the document is empty, has no section marked           *)
(* package-results, or that section has no class-less list.                 *)
C21_EmptyWithoutResultsList ==
    pc = "parsed" =>
        /\ ~IsNone(ret)
        /\ exc = "none"
        /\ Html.kids = <<>> => Val(ret) = <<>>
        /\ ResultsSections = <<>> => Val(ret) = <<>>
        /\ /\ ResultsSections # <<>>
           /\ SelectSeq(Descendants(ResultsSections[1]), IsClasslessList) = <<>>
           => Val(ret) = <<>>

\* C21 witness: a document whose only section has another class, and holds
\* a class-less list with a valid item, was parsed to nothing.
C21_Witness ==
    /\ pc = "parsed"
    /\ ResultsSections = <<>>
    /\ \E i \in 1..Len(Descendants(Html)) : Descendants(Html)[i] = NioItem
    /\ \E i \in 1..Len(Descendants(Html)) : Descendants(Html)[i].tag = "section"
    /\ Val(ret) = <<>>


\* The <li> children of the list the parser reads, none when it finds no list.
ResultsItems ==
    IF ResultsSections = <<>> \/ IsNone(package_list_of(ResultsSections[1])) THEN <<>>
    ELSE FindAllChildren(Val(package_list_of(ResultsSections[1])), "li")

\* The href of the first anchor of an item, "" when there is none.
ItemHref(li) ==
    IF IsNone(Find(li, "a")) \/ IsNone(Val(Find(li, "a")).href) THEN ""
    ELSE Val(Val(Find(li, "a")).href)

\* How many of the segments of href, split on "/", are not empty.
NonEmptySegments(href) ==
    Cardinality({i \in 1..Len(Split(href, "/")) : Split(href, "/")[i] # ""})

HasOwnerAndRepo(li) == NonEmptySegments(ItemHref(li)) >= 2

(* C22: an item yields a PackageResult only if the href of its anchor,      *)
(* split on "/", has at least two non-empty segments; an item with fewer    *)
(* is skipped, and the results of the other items of the list are all       *)
(* there, in the order of their items.                                      *)
C22_TwoSegmentsOrSkipped ==
    pc = "parsed" =>
        LET kept == SelectSeq(ResultsItems, HasOwnerAndRepo)
        IN  /\ \A i \in 1..Len(ResultsItems) :
                  IsNone(_parse_package_from_li(ResultsItems[i]))
                      <=> ~HasOwnerAndRepo(ResultsItems[i])
            /\ Len(Val(ret)) = Len(kept)
            /\ \A i \in 1..Len(kept) :
                  Val(ret)[i] = Val(_parse_package_from_li(kept[i]))

\* C22 witness: of a one-segment item followed by a valid one, only the
\* valid one came out.
C22_Witness ==
    /\ pc = "parsed"
    /\ ResultsItems = <<OneSegmentItem, NioItem>>
    /\ Len(Val(ret)) = 1
    /\ Val(ret)[1].author = "apple"
    /\ Val(ret)[1].github_url = "https://github.com/apple/swift-nio"

(* C23 as stated: every PackageResult that parse_search_results returns,    *)
(* for any document, has a non-empty name, a non-empty author, a url that   *)
(* starts with "https://swiftpackageindex.com/" and a github_url that       *)
(* starts with "https://github.com/".                                       *)
C23_RequiredFields ==
    pc = "parsed" =>
        \A i \in 1..Len(Val(ret)) :
            /\ Val(ret)[i].name # ""
            /\ Val(ret)[i].author # ""
            /\ StartsWith(Val(ret)[i].url, "https://swiftpackageindex.com/")
            /\ StartsWith(Val(ret)[i].github_url, "https://github.com/")

(* C24 as stated: _has_more_pages returns true if and only if the document  *)
(* contains a pagination list that contains an item tagged "next" that      *)
(* itself contains a link.                                                  *)
C24_HasMoreIffNextLink ==
    pc = "paged" =>
        (Val(ret) <=>
            \E i \in 1..Len(Descendants(Html)) :
                LET ul == Descendants(Html)[i]
                IN  /\ ul.tag = "ul"
                    /\ HasClass(ul, "pagination")
                    /\ \E j \in 1..Len(Descendants(ul)) :
                          LET li == Descendants(ul)[j]
                          IN  /\ li.tag = "li"
                              /\ HasClass(li, "next")
                              /\ \E k \in 1..Len(Descendants(li)) :
                                    Descendants(li)[k].tag = "a")


\* The results are those of the <li> children of list: in their order, at
\* most one for each, none for a child that does not parse.
ReadFrom(list) ==
    LET items == SelectSeq(list.kids, LAMBDA el : el.tag = "li")
        kept == SelectSeq(items, LAMBDA li : ~IsNone(_parse_package_from_li(li)))
    IN  /\ Len(Val(ret)) <= Len(items)
        /\ Len(Val(ret)) = Len(kept)
        /\ \A i \in 1..Len(kept) : Val(ret)[i] = Val(_parse_package_from_li(kept[i]))

\* The positions of the class-less lists among the children of the section.
ClasslessChildren ==
    {i \in 1..Len(ResultsSections[1].kids) : IsClasslessList(ResultsSections[1].kids[i])}

----------------------------------------------------------------------------
(* Further claims on search_packages *)

(* C26: on every path of search_packages that returns an envelope, its page *)
(* is the page argument; on every path that issued a request, its query is  *)
(* the string build_query returned and its spi_search_url is the URL that   *)
(* was requested.                                                           *)
C26_EnvelopeEchoesRequest ==
    Returned =>
        /\ Val(ret).page = page
        /\ requests # <<>> =>
              /\ Val(ret).query = build_query(args)
              /\ Val(ret).spi_search_url = requests[Len(requests)]
              /\ Len(requests) = 1

\* C26 witness: the guidance envelope of a blank search for page 3.
C26_Witness ==
    /\ Returned
    /\ InsufficientInputPath
    /\ args.query = " "
    /\ page = 3
    /\ Val(ret).page = 3

(* C27: after a successful fetch the hint depends on the results and on     *)
(* has_more: with a result and has_more it recommends get_package_readme    *)
(* and names page=<page+1>; with a result and no further page it recommends *)
(* get_package_readme and names no page; with no result it advises to       *)
(* broaden the search, whatever has_more is.                                *)
C27_HintByResultsAndHasMore ==
    SuccessPath =>
        LET hint == Val(ret).next_step
        IN  /\ Val(ret).results # <<>> /\ Val(ret).has_more =>
                  /\ Contains(hint, "get_package_readme")
                  /\ Contains(hint, "page=" \o IntStr(page + 1) \o " ")
            /\ Val(ret).results # <<>> /\ ~Val(ret).has_more =>
                  /\ Contains(hint, "get_package_readme")
                  /\ ~Contains(hint, "page")
            /\ Val(ret).results = <<>> =>
                  /\ Contains(hint, "broadening your search")
                  /\ ~Contains(hint, "get_package_readme")
                  /\ ~Contains(hint, "page")

\* C27 witness: page 2 came back with results and a next link, and the hint
\* names page 3.
C27_Witness ==
    /\ SuccessPath
    /\ page = 2
    /\ Len(Val(ret).results) = 2
    /\ Val(ret).has_more
    /\ Contains(Val(ret).next_step, "Pass page=3 to see more results.")

(* C29: search_packages returns results or has_more = true only if its GET  *)
(* completed with a success status: the body of a failed response is never  *)
(* parsed into the envelope, and a request is issued only after the built   *)
(* query was found non-blank.                                               *)
C29_ResultsOnlyAfterSuccess ==
    /\ Returned /\ (Val(ret).results # <<>> \/ Val(ret).has_more) =>
          /\ SuccessPath
          /\ Len(requests) = 1
          /\ Val(ret).results = parse_search_results(Val(outcome).body)
          /\ Val(ret).has_more = _has_more_pages(Val(outcome).body)
    /\ requests # <<>> =>
          /\ query_string = build_query(args)
          /\ Strip(query_string, Whitespace) # ""
    /\ pc \in {"url_built", "client_open", "awaiting", "received"} =>
          Strip(build_query(args), Whitespace) # ""

\* C29 witness: a 404 whose body holds results and a next link was returned
\* with neither.
C29_Witness ==
    /\ HttpErrorPath
    /\ Val(outcome).status = 404
    /\ parse_search_results(Val(outcome).body) # <<>>
    /\ _has_more_pages(Val(outcome).body)
    /\ Val(ret).results = <<>>
    /\ ~Val(ret).has_more

\* The free text is only whitespace and no filter is supplied.
OnlyWhitespaceSupplied(a) ==
    /\ a.query # ""
    /\ Strip(a.query, Whitespace) = ""
    /\ \A k \in 1..Len(FilterKeys) : IsNone(Supplied(a, k))

(* C30: a search whose free text is only whitespace and whose filters are   *)
(* all absent is insufficient input although build_query returns a          *)
(* non-empty string: no request is issued and the guidance envelope has     *)
(* query = "" and the bare search URL; and whenever the built query has a   *)
(* non-whitespace character a request is issued.                            *)
C30_WhitespaceIsInsufficient ==
    /\ OnlyWhitespaceSupplied(args) /\ pc # "call" =>
          /\ build_query(args) # ""
          /\ Returned
          /\ requests = <<>>
          /\ n_clients = 0
          /\ Val(ret).query = ""
          /\ Val(ret).spi_search_url = "https://swiftpackageindex.com/search"
          /\ Val(ret).next_step = GuidanceText
    /\ Finished /\ Strip(build_query(args), Whitespace) # "" => Len(requests) = 1

\* C30 witness: a search for " " with an empty platform list returned the
\* guidance envelope.
C30_Witness ==
    /\ Returned
    /\ args.query = " "
    /\ args.platforms = Some(<<>>)
    /\ query_string = " "
    /\ requests = <<>>
    /\ Val(ret).query = ""


----------------------------------------------------------------------------
(* Several calls of search_packages and fetch_readme interleaved on one     *)
(* event loop.  A coroutine runs without interruption from one await to     *)
(* the next, so a call takes a step when it starts (up to its first         *)
(* "await client.get", scraper.py:337 and 410) and each time the response   *)
(* it awaits has arrived.  calls[i] holds the locals of call i, clients[c]  *)
(* the client of call c: its state, the requests it has sent that are not   *)
(* answered yet, the responses that arrived and were not read yet, and the  *)
(* log of the answers given, each with the call whose request it answers.   *)
(* Exceptions other than the two the functions catch are left out here.     *)

\* Number of interleaved calls.
NumCalls == 2

CallIds == 1..NumCalls

\* Every call going through the client of call 1.
client_of_pooled(i) == 1

\* scraper.py:336, 406: each call creates its client in its own async with.
client_of(i) == i

SearchCall(a, p) ==
    [kind |-> "search", args |-> a, owner |-> "", repo |-> "", max_length |-> 0,
     page |-> p, pc |-> "call", query_string |-> "", search_url |-> "",
     requests |-> <<>>, consumed |-> <<>>, ret |-> None]

FetchCall(owner, repo, max_length) ==
    [kind |-> "readme", args |-> NoArgs, owner |-> owner, repo |-> repo,
     max_length |-> max_length, page |-> 1, pc |-> "call", query_string |-> "",
     search_url |-> "", requests |-> <<>>, consumed |-> <<>>, ret |-> None]

CallChoices ==
    {SearchCall([NoArgs EXCEPT !.query = "json"], 1),
     SearchCall([NoArgs EXCEPT !.query = " "], 2),
     FetchCall("apple", "swift-nio", 0)}

\* What the remote side can answer to a request of a call of the kind.
InterleavedOutcomes(kind) ==
    IF kind = "search"
    THEN {HttpResponse(200, Document(Some(<<Ul(<<>>, <<NioItem, VaporItem>>), NextUl>>), <<>>)),
          HttpResponse(503, EmptyDocument),
          Raised("timeout")}
    ELSE {TextResponse(404, ""), TextResponse(200, "# SwiftNIO"), ProbeRaised("connect_error")}

\* scraper.py:338-383: the envelope for the outcome o of the GET.
search_result(q, p, url, o) ==
    CASE o.kind = "timeout" -> _error_response(q, p, url, TimeoutText)
      [] o.kind = "connect_error" -> _error_response(q, p, url, ConnectErrorText)
      [] o.kind = "response" /\ raises_for_status(o.status) ->
             _error_response(q, p, url, _classify_http_error(o.status))
      [] o.kind = "response" /\ ~raises_for_status(o.status) ->
             search_response(q, p, url, o.body)

\* scraper.py:411-413: the k-th probe answered o, and the loops go on.
probing_goes_on(o, k) ==
    /\ o.kind = "response"
    /\ o.status # 200
    /\ ~rate_limited(o.status)
    /\ k < Len(candidates)

\* scraper.py:411-423: the string returned when the probing ends with o.
readme_result(owner, repo, max_length, o) ==
    CASE o.kind = "timeout" -> ReadmeTimeoutText(owner, repo)
      [] o.kind = "connect_error" -> ReadmeConnectErrorText(owner, repo)
      [] o.kind = "response" /\ o.status = 200 -> _truncate_readme(o.body, max_length)
      [] o.kind = "response" /\ o.status # 200 /\ rate_limited(o.status) ->
             RateLimitedText(owner, repo)
      [] o.kind = "response" /\ o.status # 200 /\ ~rate_limited(o.status) ->
             NotFoundText(owner, repo)

single_call_vars ==
    <<pc, args, page, query_string, search_url, client, n_clients, requests,
      outcome, ret, exc, status_code, message, readme_args, answers>>

InitInterleaved ==
    /\ calls \in [CallIds -> CallChoices]
    /\ clients = [c \in CallIds |->
                     [state |-> "none", pending |-> <<>>, inbox |-> <<>>, log |-> <<>>]]
    /\ pc = "interleaved"
    /\ args = NoArgs
    /\ page = 1
    /\ query_string = ""
    /\ search_url = ""
    /\ client = "none"
    /\ n_clients = 0
    /\ requests = <<>>
    /\ outcome = None
    /\ ret = None
    /\ exc = "none"
    /\ status_code = 0
    /\ message = None
    /\ readme_args = [owner |-> "", repo |-> "", max_length |-> 0, tool_max_length |-> <<>>]
    /\ answers = <<>>

\* Call i sends the GET for url through its client and awaits the response.
SendOn(i, url, me) ==
    /\ calls' = [calls EXCEPT ![i] = [me EXCEPT !.requests = Append(@, url),
                                                !.pc = "awaiting"]]
    /\ clients' = [clients EXCEPT ![client_of(i)] =
                      [@ EXCEPT !.state = "open",
                                !.inbox = IF me.consumed = <<>> THEN @ ELSE Tail(@),
                                !.pending = Append(@, [issuer |-> i, url |-> url])]]

\* Call i returns value, leaving its async with block if it was inside one.
ReturnFrom(i, value, me) ==
    /\ calls' = [calls EXCEPT ![i] = [me EXCEPT !.ret = Some(value), !.pc = "returned"]]
    /\ clients' = IF me.requests = <<>> THEN clients
                  ELSE [clients EXCEPT ![client_of(i)] =
                           [@ EXCEPT !.state = "closed", !.inbox = Tail(@)]]

\* scraper.py:304-337 and 402-410: call i runs from its start to its first
\* await, or to the return of the guidance envelope.
Begin(i) ==
    /\ calls[i].pc = "call"
    /\ LET me == calls[i]
           q == build_query(me.args)
       IN  IF me.kind = "search"
           THEN IF insufficient_input(q)
                THEN ReturnFrom(i, guidance_response(me.page),
                                [me EXCEPT !.query_string = q])
                ELSE SendOn(i, _build_search_url(q, me.page),
                            [me EXCEPT !.query_string = q,
                                       !.search_url = _build_search_url(q, me.page)])
           ELSE SendOn(i, raw_url(me.owner, me.repo, candidates[1]), me)
    /\ UNCHANGED single_call_vars

\* The remote side answers the oldest unanswered request of client c.
Deliver(c) ==
    /\ clients[c].pending # <<>>
    /\ LET r == Head(clients[c].pending)
       IN  \E o \in InterleavedOutcomes(calls[r.issuer].kind) :
               clients' = [clients EXCEPT ![c] =
                              [@ EXCEPT !.pending = Tail(@),
                                        !.inbox = Append(@, o),
                                        !.log = Append(@, [issuer |-> r.issuer,
                                                           outcome |-> o])]]
    /\ UNCHANGED calls
    /\ UNCHANGED single_call_vars

\* scraper.py:338-383 and 411-423: call i is resumed with the response that
\* arrived on its client, and runs to its return or to its next await.
Resume(i) ==
    /\ calls[i].pc = "awaiting"
    /\ clients[client_of(i)].inbox # <<>>
    /\ LET o == Head(clients[client_of(i)].inbox)
           me == [calls[i] EXCEPT !.consumed = Append(@, o)]
       IN  IF me.kind = "search"
           THEN ReturnFrom(i, search_result(me.query_string, me.page, me.search_url, o), me)
           ELSE IF probing_goes_on(o, Len(me.requests))
                THEN SendOn(i, raw_url(me.owner, me.repo,
                                       candidates[Len(me.requests) + 1]), me)
                ELSE ReturnFrom(i, readme_result(me.owner, me.repo, me.max_length, o), me)
    /\ UNCHANGED single_call_vars

NextInterleaved ==
    \/ \E i \in CallIds : Begin(i)
    \/ \E c \in CallIds : Deliver(c)
    \/ \E i \in CallIds : Resume(i)

SpecInterleaved == InitInterleaved /\ [][NextInterleaved]_vars


\* The answers the remote side gave to the requests of call i, in order,
\* whichever client carried them.
RECURSIVE AnswersTo(_, _)
AnswersTo(i, c) ==
    IF c = 0 THEN <<>>
    ELSE AnswersTo(i, c - 1) \o SelectSeq(clients[c].log, LAMBDA e : e.issuer = i)

OwnResponses(i) ==
    LET own == AnswersTo(i, NumCalls)
    IN  SubSeq([k \in 1..Len(own) |-> own[k].outcome], 1, Len(own))

\* What call i returns when it runs alone with the responses rs.
RunAlone(me, rs) ==
    IF me.kind = "search"
    THEN IF insufficient_input(build_query(me.args))
         THEN guidance_response(me.page)
         ELSE search_result(build_query(me.args), me.page,
                            _build_search_url(build_query(me.args), me.page), rs[1])
    ELSE readme_result(me.owner, me.repo, me.max_length, rs[Len(rs)])

(* C28: interleaved calls do not interfere.  Each call sends its requests   *)
(* through its own client only and reads only the responses to its own      *)
(* requests; the value it returns is the value it returns when run alone    *)
(* with its arguments and those responses, in whatever order the calls and  *)
(* the responses are interleaved; and a call has at most one request in     *)
(* flight at any time.                                                      *)
C28_CallsDoNotInterfere ==
    \A i \in CallIds :
        /\ \A c \in CallIds :
              /\ \A k \in 1..Len(clients[c].pending) : clients[c].pending[k].issuer = c
              /\ \A k \in 1..Len(clients[c].log) : clients[c].log[k].issuer = c
        /\ Len(calls[i].requests) - Len(OwnResponses(i)) \in {0, 1}
        /\ Len(calls[i].consumed) <= Len(OwnResponses(i))
        /\ calls[i].consumed = SubSeq(OwnResponses(i), 1, Len(calls[i].consumed))
        /\ calls[i].pc = "returned" =>
              /\ calls[i].consumed = OwnResponses(i)
              /\ calls[i].ret = Some(RunAlone(calls[i], OwnResponses(i)))
              /\ calls[i].requests # <<>> => clients[i].state = "closed"

\* C28 witness: a search whose response has arrived but was not read yet,
\* while a README fetch with two misses behind it has its third probe in
\* flight; and the fetch is call 1, the search call 2.
C28_Witness ==
    /\ calls[1].kind = "readme"
    /\ calls[2].kind = "search"
    /\ calls[1].pc = "awaiting"
    /\ Len(calls[1].requests) = 3
    /\ Len(clients[1].pending) = 1
    /\ calls[2].pc = "awaiting"
    /\ Len(clients[2].inbox) = 1
    /\ clients[2].inbox[1].kind = "timeout"

============================================================================
